---- MODULE Spec2Model ----
(***************************************************************************)
(* Model of src/app/utils/index.ts: the module-level room registry         *)
(* (_rooms, consumerRoomsUpdateListeners, subscribeSocketToRooms) and one  *)
(* RoomClient with its lazily created send and receive transports,         *)
(* createProducer and createConsumer.                                      *)
(*                                                                         *)
(* Every await of the source is a suspension point: the code up to the     *)
(* next await is one action, and the acknowledgement of the awaited RPC    *)
(* starts the next one.  The media engine (mediasoup-client) is the        *)
(* environment: it queues produce()/consume() calls per transport, fires   *)
(* 'connect' on the first of them and waits for the callback the handler   *)
(* was given, and reports connection-state changes.                        *)
(***************************************************************************)
EXTENDS Integers, Sequences, FiniteSets, TLC

\* ------------------------------------------------------------- bounds
MaxCalls == 2
MaxProdCalls == 2
MaxPushes == 2
MaxSubs == 2
MaxConnects == 2
RegConnects == 1
MaxJoins == 2
MaxRoomCalls == 2
MaxCloses == 2

Calls == 1..MaxCalls
ProdCalls == 1..MaxProdCalls
Joins == 1..MaxJoins
RoomCalls == 1..MaxRoomCalls
Closes == 1..MaxCloses

\* ------------------------------------------------------------- values
NoTransport == 0
NoConsumer == 0
NoError == [rpc |-> "none", kind |-> "none"]

Room == "R1"

\* The room names createRoom and joinRoom are called with.
RoomNames == {Room, "R2"}

Kinds == {"audio", "video"}

\* The payloads createConsumer is called with.
Payloads == [producerId : {"P1"}, producerKind : Kinds]

Member(a, v) == [audioProducerIds |-> a, videoProducerIds |-> v]

NoMembers == [m \in {} |-> Member({}, {})]
NoRooms == [r \in {} |-> [members |-> NoMembers]]

\* A value of _rooms: defined = FALSE is JavaScript's undefined.
Registry(map) == [defined |-> TRUE, map |-> map]
Undefined == [defined |-> FALSE, map |-> NoRooms]

\* The data.result of the rooms-updated pushes the server sends: a mapping
\* room -> members -> producer-id lists, or none (an error Result).
Snapshots ==
  { Undefined,
    Registry(NoRooms),
    Registry("R2" :> [members |-> "m1" :> Member({"P1"}, {"P1"})]),
    Registry(Room :> [members |-> NoMembers]),
    Registry(Room :> [members |-> "m1" :> Member({"P1"}, {})]),
    Registry(Room :> [members |-> "m1" :> Member({}, {"P1"})]),
    Registry(Room :> [members |-> ("m1" :> Member({}, {})) @@ ("m2" :> Member({"P1"}, {"P1"}))]) }

\* The snapshot the registry held when joinRoom returned the RoomClient.
InitSnapshot == Registry(Room :> [members |-> "m1" :> Member({"P1"}, {"P1"})])

\* The failure kinds each RPC is acknowledged with.
JoinErrors == {"RoomDoesNotExist"}
ConnectErrors == {"TransportDoesNotExist"}
ProduceErrors == {"TransportDoesNotExist"}
ConsumeErrors == {"TransportCannotConsumeProducer"}
ResumeErrors == {"TransportIsNotAConsumer"}
CreateErrors == {"RoomAlreadyExists", "Unauthorized"}

\* Line 97: device.rtpCapabilities.codecs?.length after device.load
CodecCounts == 0..2

VARIABLES
  rooms,          \* _rooms
  listeners,      \* consumerRoomsUpdateListeners: consumer ids, in insertion order
  subs,           \* one 'fired' flag per subscribeSocketToRooms handler
  pushCount,      \* rooms-updated pushes delivered so far
  lastPush,       \* data.result of the latest push
  sendTransport,  \* RoomClient.sendTransport
  recvTransport,  \* RoomClient.recvTransport
  transports,     \* the transport objects created so far, by id
  cpc,            \* createConsumer call -> where its executor stands
  promise,        \* createConsumer call -> the promise it returned
  consumerVar,    \* createConsumer call -> its local variable 'consumer'
  payload,        \* createConsumer call -> its payload
  cTransport,     \* createConsumer call -> the transport consume() was called on
  errAt,          \* createConsumer call -> the error acknowledgement it met
  closed,         \* consumers closed by consumer.close()
  resumeSent,     \* consumer id -> resume-consume RPCs emitted with it
  closeSent,      \* consumer id -> close-consumer RPCs emitted with it
  onEnd,          \* createConsumer call -> invocations of its onEnd
  ppc,            \* createProducer call -> where it stands
  pPromise,       \* createProducer call -> the promise it returned
  pTransport,     \* createProducer call -> the transport produce() was called on
  pErrAt,         \* createProducer call -> the error acknowledgement it met
  pLog,           \* createProducer call -> the RPCs it issued, whether
                  \* the calls up to it were made one after the other, each
                  \* after the earlier one resolved, and whether it was
                  \* invoked when this.sendTransport held a closed transport
  pushedTo,       \* subscription -> a push has occurred since it was made
  serverRooms,    \* the room names the server has created
  cr,             \* createRoom call -> where it stands and how it ended
  jr,             \* joinRoom call -> where it stands and how it ended
  cl,             \* close call -> where it stands
  tClosed,        \* the transports close() has been called on
  ctSent,         \* transport -> close-transport RPCs emitted with its id
  ctOut,          \* transport -> close-transport RPCs not answered yet
  late,           \* createConsumer call -> invoked when this.recvTransport held
                  \* a transport that close() had closed
  owed,           \* createConsumer call -> "missed": a push without its
                  \* producer came while it was in flight; "due": it has
                  \* resolved since and no push has followed yet
  resumeAcked,    \* the consumer ids whose resume-consume was acknowledged ok
  afterFail,      \* createConsumer call -> started after a call failed at transport-consume
  connectsLeft    \* reports of connection state 'connected' still to come

vars == << rooms, listeners, subs, pushCount, lastPush, sendTransport,
           recvTransport, transports, cpc, promise, consumerVar, payload,
           cTransport, errAt, closed, resumeSent, closeSent, onEnd, ppc,
           pPromise, pTransport, pErrAt, serverRooms, cr, jr, cl, tClosed, ctSent, ctOut,
           pushedTo, pLog, afterFail,
           resumeAcked, owed, late,
           connectsLeft >>

registryVars == << rooms, listeners, subs, pushCount, lastPush, closed,
                   closeSent, onEnd, pushedTo >>
consumerVars == << recvTransport, cpc, promise, consumerVar, payload,
                   cTransport, errAt, resumeSent, afterFail,
                  resumeAcked, owed, late >>
producerVars == << sendTransport, ppc, pPromise, pTransport, pErrAt, pLog >>
roomVars == << serverRooms, cr, jr, cl, tClosed, ctSent, ctOut >>

Pending == [state |-> "pending", value |-> "none"]
NoPromise == [state |-> "none", value |-> "none"]

\* resolve(v) / reject(v) of a promise: the first settlement wins.
Settle(p, st, v) == IF p.state = "pending" THEN [state |-> st, value |-> v] ELSE p

\* device.createSendTransport / device.createRecvTransport: a new transport
\* object, in connection state 'new', with nothing set up yet.
NewTransport(dir, owner) ==
  [ dir |-> dir,
    owner |-> owner,
    connectionState |-> "new",
    connRpc |-> "none",
    connTid |-> NoTransport,
    connCall |-> 0,
    queue |-> << >>,
    hres |-> 0 ]

\* A joinRoom call that has not been made: absent records whether the room was
\* a key of the stored registry when the call was made, codecs the number of
\* codecs the loaded device reported (-1 before the load), created whether a
\* createRoom of the same name had resolved when the call was made.
NoCall == [pc |-> "idle", room |-> "none", absent |-> FALSE, codecs |-> -1,
           out |-> "none", created |-> FALSE]

\* A createRoom call that has not been made: dup records whether an earlier
\* createRoom of the same name had resolved when the call was made, ack the
\* error kind of the acknowledgement.
NoRoomCall == [pc |-> "idle", room |-> "none", dup |-> FALSE, ack |-> "none",
               out |-> "none"]

\* Everything but the registry: no call has been made, no transport exists.
ClientInit(budget) ==
  /\ listeners = << >>
  /\ pushCount = 0
  /\ serverRooms = {}
  /\ pLog = [p \in ProdCalls |-> [joins |-> 0, produces |-> 0, seq |-> FALSE,
                                late |-> FALSE]]
  /\ resumeAcked = {}
  /\ owed = [c \in Calls |-> "no"]
  /\ late = [c \in Calls |-> FALSE]
  /\ cr = [k \in RoomCalls |-> NoRoomCall]
  /\ jr = [j \in Joins |-> NoCall]
  /\ cl = [k \in Closes |-> "idle"]
  /\ tClosed = {}
  /\ ctSent = [t \in 1..(MaxCalls + MaxProdCalls) |-> 0]
  /\ ctOut = [t \in 1..(MaxCalls + MaxProdCalls) |-> 0]
  /\ sendTransport = NoTransport
  /\ recvTransport = NoTransport
  /\ transports = << >>
  /\ cpc = [c \in Calls |-> "idle"]
  /\ promise = [c \in Calls |-> NoPromise]
  /\ consumerVar = [c \in Calls |-> NoConsumer]
  /\ payload = [c \in Calls |-> CHOOSE p \in Payloads : p.producerKind = "audio"]
  /\ cTransport = [c \in Calls |-> NoTransport]
  /\ errAt = [c \in Calls |-> NoError]
  /\ closed = {}
  /\ resumeSent = [c \in Calls |-> 0]
  /\ closeSent = [c \in Calls |-> 0]
  /\ onEnd = [c \in Calls |-> 0]
  /\ ppc = [p \in ProdCalls |-> "idle"]
  /\ pPromise = [p \in ProdCalls |-> NoPromise]
  /\ pTransport = [p \in ProdCalls |-> NoTransport]
  /\ pErrAt = [p \in ProdCalls |-> NoError]
  /\ afterFail = [c \in Calls |-> FALSE]
  /\ connectsLeft = budget

\* The state when joinRoom has returned the RoomClient: one subscription has
\* delivered the snapshot that lists the room; no transport exists.
InitWith(budget) ==
  /\ rooms = InitSnapshot
  /\ subs = << TRUE >>
  /\ pushedTo = << TRUE >>
  /\ lastPush = InitSnapshot
  /\ ClientInit(budget)

\* Line 4: the state when the module is loaded: _rooms = {}, nothing
\* subscribed.
RoomInit ==
  /\ rooms = Registry(NoRooms)
  /\ subs = << >>
  /\ pushedTo = << >>
  /\ lastPush = Registry(NoRooms)
  /\ ClientInit(RegConnects)

Init == InitWith(RegConnects)

ConsumerInit == InitWith(MaxConnects)

\* ------------------------------------------------- createConsumer

\* Lines 220-225: createConsumer up to its first await: join-room when no
\* Recv Transport is cached, transport-consume otherwise.
CreateConsumer(c, pl) ==
  /\ cpc[c] = "idle"
  /\ \A d \in Calls : d < c => cpc[d] # "idle"
  /\ promise' = [promise EXCEPT ![c] = Pending]
  /\ payload' = [payload EXCEPT ![c] = pl]
  /\ cpc' = [cpc EXCEPT ![c] = IF recvTransport = NoTransport THEN "join" ELSE "tconsume"]
  /\ afterFail' = [afterFail EXCEPT ![c] =
                     \E d \in Calls : /\ cpc[d] = "threw"
                                      /\ errAt[d].rpc = "transport-consume"]
  /\ late' = [late EXCEPT ![c] = recvTransport \in tClosed]
  /\ UNCHANGED << registryVars, producerVars, recvTransport, transports,
                  consumerVar, cTransport, errAt, resumeSent, connectsLeft,
                  roomVars, resumeAcked, owed >>

\* Lines 227-236 on an error acknowledgement of join-room: reject(type), and
\* with no return the executor goes on to read creds.result!.id of an absent
\* result and throws before this.recvTransport is assigned.
JoinConsumerError(c, e) ==
  /\ cpc[c] = "join"
  /\ promise' = [promise EXCEPT ![c] = Settle(@, "rejected", e)]
  /\ errAt' = [errAt EXCEPT ![c] = [rpc |-> "join-room", kind |-> e]]
  /\ cpc' = [cpc EXCEPT ![c] = "threw"]
  /\ UNCHANGED << registryVars, producerVars, recvTransport, transports,
                  consumerVar, payload, cTransport, resumeSent, connectsLeft,
                  afterFail,
                  roomVars, resumeAcked, owed, late >>

\* Lines 231-281 on a successful acknowledgement: create the Recv Transport,
\* store it in this.recvTransport, register the two handlers (which close over
\* this call's 'consumer' and 'resolve'), emit transport-consume.
JoinConsumerOk(c) ==
  /\ cpc[c] = "join"
  /\ transports' = Append(transports, NewTransport("recv", c))
  /\ recvTransport' = Len(transports) + 1
  /\ cpc' = [cpc EXCEPT ![c] = "tconsume"]
  /\ UNCHANGED << registryVars, producerVars, promise, consumerVar, payload,
                  cTransport, errAt, resumeSent, connectsLeft,
                  afterFail,
                  roomVars, resumeAcked, owed, late >>

\* Lines 283-285 on an error acknowledgement of transport-consume: the throw
\* happens inside the async executor of new Promise, so it settles nothing.
TransportConsumeError(c, e) ==
  /\ cpc[c] = "tconsume"
  /\ errAt' = [errAt EXCEPT ![c] = [rpc |-> "transport-consume", kind |-> e]]
  /\ cpc' = [cpc EXCEPT ![c] = "threw"]
  /\ UNCHANGED << registryVars, producerVars, recvTransport, transports,
                  promise, consumerVar, payload, cTransport, resumeSent, connectsLeft,
                  afterFail,
                  roomVars, resumeAcked, owed, late >>

\* Lines 287-292 on a successful acknowledgement: call consume() on the
\* transport this.recvTransport holds now; the media engine queues the call.
TransportConsumeOk(c) ==
  /\ cpc[c] = "tconsume"
  /\ cTransport' = [cTransport EXCEPT ![c] = recvTransport]
  /\ transports' = [transports EXCEPT ![recvTransport].queue = Append(@, c)]
  /\ cpc' = [cpc EXCEPT ![c] = "consume"]
  /\ UNCHANGED << registryVars, producerVars, recvTransport, promise,
                  consumerVar, payload, errAt, resumeSent, connectsLeft,
                  afterFail,
                  roomVars, resumeAcked, owed, late >>

\* this.sendTransport / this.recvTransport as a handler of transport t reads it.
Field(t) == IF transports[t].dir = "send" THEN sendTransport ELSE recvTransport

\* Lines 155-159 and 238-244: the media engine fires 'connect' for the first
\* produce()/consume() of a transport; the handler emits connect-transport
\* with the id of the transport the session field holds.
ConnectEvent(t) ==
  /\ t \in DOMAIN transports
  /\ t \notin tClosed
  /\ transports[t].connRpc = "none"
  /\ transports[t].queue # << >>
  /\ transports' = [transports EXCEPT ![t].connRpc = "pending",
                                      ![t].connTid = Field(t),
                                      ![t].connCall = Head(transports[t].queue)]
  /\ UNCHANGED << registryVars, consumerVars, producerVars, connectsLeft,
                  roomVars >>

\* Lines 165 and 250: on a successful acknowledgement the handler calls the
\* callback, which lets the queued produce()/consume() go on.
ConnectOk(t) ==
  /\ t \in DOMAIN transports
  /\ transports[t].connRpc = "pending"
  /\ transports' = [transports EXCEPT ![t].connRpc = "ok"]
  /\ UNCHANGED << registryVars, consumerVars, producerVars, connectsLeft,
                  roomVars >>

\* Lines 161-163 and 246-248: on an error acknowledgement the async handler
\* throws; it was given no errback, so the media engine is never answered.
ConnectError(t, e) ==
  /\ t \in DOMAIN transports
  /\ transports[t].connRpc = "pending"
  /\ transports' = [transports EXCEPT ![t].connRpc = "err"]
  /\ LET who == transports[t].connCall
         err == [rpc |-> "connect-transport", kind |-> e]
     IN  IF transports[t].dir = "recv"
         THEN errAt' = [errAt EXCEPT ![who] = err] /\ UNCHANGED pErrAt
         ELSE pErrAt' = [pErrAt EXCEPT ![who] = err] /\ UNCHANGED errAt
  /\ UNCHANGED << registryVars, recvTransport, cpc, promise, consumerVar,
                  payload, cTransport, resumeSent, sendTransport, ppc,
                  pPromise, pTransport, pLog, connectsLeft, afterFail,
                  roomVars, resumeAcked, owed, late >>

\* Line 294: this.recvTransport.connectionState === "connected".
RecvConnected == transports[recvTransport].connectionState = "connected"

\* A consume() return that resolves with the consumer at once, before any
\* resume-consume.
ConsumeReturnEarly(c) ==
  /\ cpc[c] = "consume"
  /\ cTransport[c] \notin tClosed
  /\ LET t == cTransport[c] IN
       /\ transports[t].connRpc = "ok"
       /\ Head(transports[t].queue) = c
       /\ transports' = [transports EXCEPT ![t].queue = Tail(@)]
  /\ consumerVar' = [consumerVar EXCEPT ![c] = c]
  /\ promise' = [promise EXCEPT ![c] = Settle(@, "resolved", c)]
  /\ cpc' = [cpc EXCEPT ![c] = "end"]
  /\ UNCHANGED << registryVars, producerVars, recvTransport, payload,
                  cTransport, errAt, resumeSent, connectsLeft, afterFail,
                  roomVars, resumeAcked, owed, late >>

\* Lines 287-298: consume() returns the consumer, which is assigned to
\* 'consumer'; when the Recv Transport reports connected the executor emits
\* resume-consume, else it ends without settling the promise.
ConsumeReturn(c) ==
  /\ cpc[c] = "consume"
  /\ cTransport[c] \notin tClosed
  /\ LET t == cTransport[c] IN
       /\ transports[t].connRpc = "ok"
       /\ Head(transports[t].queue) = c
       /\ transports' = [transports EXCEPT ![t].queue = Tail(@)]
  /\ consumerVar' = [consumerVar EXCEPT ![c] = c]
  /\ IF RecvConnected
     THEN /\ resumeSent' = [resumeSent EXCEPT ![c] = @ + 1]
          /\ cpc' = [cpc EXCEPT ![c] = "resume"]
     ELSE /\ cpc' = [cpc EXCEPT ![c] = "end"]
          /\ UNCHANGED resumeSent
  /\ UNCHANGED << registryVars, producerVars, recvTransport, promise, payload,
                  cTransport, errAt, connectsLeft,
                  afterFail,
                  roomVars, resumeAcked, owed, late >>

\* Lines 300-302: the throw inside the async executor settles nothing.
ResumeSyncError(c, e) ==
  /\ cpc[c] = "resume"
  /\ errAt' = [errAt EXCEPT ![c] = [rpc |-> "resume-consume", kind |-> e]]
  /\ cpc' = [cpc EXCEPT ![c] = "threw"]
  /\ UNCHANGED << registryVars, producerVars, recvTransport, transports,
                  promise, consumerVar, payload, cTransport, resumeSent, connectsLeft,
                  afterFail,
                  roomVars, resumeAcked, owed, late >>

\* consumerRoomsUpdateListeners[id] = listener: a new key goes last, an
\* existing key keeps its place.
Register(ls, id) ==
  IF \E i \in DOMAIN ls : ls[i] = id THEN ls ELSE Append(ls, id)

\* Lines 303-344: register the reconciliation listener under consumer.id and
\* resolve(consumer).
ResumeSyncOk(c) ==
  /\ cpc[c] = "resume"
  /\ listeners' = Register(listeners, consumerVar[c])
  /\ promise' = [promise EXCEPT ![c] = Settle(@, "resolved", consumerVar[c])]
  /\ cpc' = [cpc EXCEPT ![c] = "end"]
  /\ resumeAcked' = resumeAcked \cup {consumerVar[c]}
  /\ owed' = [owed EXCEPT ![c] =
               IF promise[c].state = "pending" /\ @ = "missed"
               THEN "due" ELSE @]
  /\ UNCHANGED << rooms, subs, pushCount, lastPush, closed, closeSent, onEnd,
                  pushedTo, producerVars, recvTransport, transports, consumerVar,
                  payload, cTransport, errAt, resumeSent, connectsLeft,
                  afterFail,
                  roomVars, late >>

\* The connection states the media engine reports one after the other.
NextStates(s) ==
  CASE s = "new" -> {"connecting"}
    [] s = "connecting" -> {"connected"}
    [] s = "connected" -> {"disconnected"}
    [] s = "disconnected" -> {"connected"}
    [] OTHER -> {}

\* Lines 254-261: the media engine reports a new connection state of a
\* transport that has been set up.  The Recv Transport's handler, on
\* 'connected', reads consumer!.id of the call that created the transport
\* (a TypeError while that variable is unassigned) and emits resume-consume.
ConnectionStateChange(t, s) ==
  /\ t \in DOMAIN transports
  /\ t \notin tClosed
  /\ transports[t].connRpc = "ok"
  /\ s \in NextStates(transports[t].connectionState)
  /\ s = "connected" => connectsLeft > 0
  /\ connectsLeft' = IF s = "connected" THEN connectsLeft - 1 ELSE connectsLeft
  /\ LET id == consumerVar[transports[t].owner]
         emits == /\ transports[t].dir = "recv"
                  /\ s = "connected"
                  /\ id # NoConsumer
     IN  /\ transports' = [transports EXCEPT
                             ![t].connectionState = s,
                             ![t].hres = IF emits THEN @ + 1 ELSE @]
         /\ resumeSent' = IF emits THEN [resumeSent EXCEPT ![id] = @ + 1]
                          ELSE resumeSent
  /\ UNCHANGED << registryVars, producerVars, recvTransport, cpc, promise,
                  consumerVar, payload, cTransport, errAt,
                  afterFail,
                  roomVars, resumeAcked, owed, late >>

\* Lines 263-268: the handler's resume-consume is acknowledged: resolve with
\* the 'consumer' of the call that created the transport.
ResumeHandlerOk(t) ==
  /\ t \in DOMAIN transports
  /\ transports[t].hres > 0
  /\ transports' = [transports EXCEPT ![t].hres = @ - 1]
  /\ LET o == transports[t].owner
     IN  promise' = [promise EXCEPT ![o] = Settle(@, "resolved", consumerVar[o])]
  /\ resumeAcked' = resumeAcked \cup {consumerVar[transports[t].owner]}
  /\ owed' = [owed EXCEPT ![transports[t].owner] =
               IF promise[transports[t].owner].state = "pending"
                  /\ @ = "missed"
               THEN "due" ELSE @]
  /\ UNCHANGED << registryVars, producerVars, recvTransport, cpc, consumerVar,
                  payload, cTransport, errAt, resumeSent, connectsLeft,
                  afterFail,
                  roomVars, late >>

\* Lines 263-265: the throw inside the async handler settles nothing.
ResumeHandlerError(t, e) ==
  /\ t \in DOMAIN transports
  /\ transports[t].hres > 0
  /\ transports' = [transports EXCEPT ![t].hres = @ - 1]
  /\ errAt' = [errAt EXCEPT ![transports[t].owner] =
                 [rpc |-> "resume-consume", kind |-> e]]
  /\ UNCHANGED << registryVars, producerVars, recvTransport, cpc, promise,
                  consumerVar, payload, cTransport, resumeSent, connectsLeft,
                  afterFail,
                  roomVars, resumeAcked, owed, late >>

\* ------------------------------------------------- the registry

\* Lines 307-309 and 324-326: some member of the session's room lists the
\* producer id under the consumer's kind.
Listed(map, pl) ==
  \E m \in DOMAIN map[Room].members :
    IF pl.producerKind = "audio"
    THEN pl.producerId \in map[Room].members[m].audioProducerIds
    ELSE pl.producerId \in map[Room].members[m].videoProducerIds

\* A delete that leaves the listener registered.
RemoveNothing(ls, id) == ls

\* Lines 320 and 338: delete consumerRoomsUpdateListeners[consumer.id]
Remove(ls, id) == SelectSeq(ls, LAMBDA x : x # id)

\* Lines 311 and 329: consumer.close()
CloseConsumer(st, id) == [st EXCEPT !.closed = @ \cup {id}]

\* Lines 312-319 and 330-337: socket.emit("close-consumer", ..., () => {}),
\* not awaited.
EmitCloseConsumer(st, id) == [st EXCEPT !.closeSent[id] = @ + 1]

\* Lines 320 and 338 applied to the table of the delivery.
DeleteListener(st, id) == [st EXCEPT !.listeners = Remove(@, id)]

\* Lines 321 and 339: onEnd?.().  early records the consumers whose onEnd was
\* called while the consumer was open or its listener still in the table.
CallOnEnd(st, id) ==
  [st EXCEPT !.onEnd[id] = @ + 1,
             !.early = IF id \in st.closed
                          /\ \A k \in DOMAIN st.listeners :
                               st.listeners[k] # id
                       THEN @ ELSE @ \cup {id}]

\* A branch that calls onEnd before it closes the consumer.
EndConsumerOnEndFirst(st, id) ==
  DeleteListener(EmitCloseConsumer(CloseConsumer(CallOnEnd(st, id), id), id),
                 id)

\* Lines 311-321 and 329-339, in the order of the code.
EndConsumer(st, id) ==
  CallOnEnd(DeleteListener(EmitCloseConsumer(CloseConsumer(st, id), id), id),
            id)

\* Lines 303-342: the listener of consumer id on snapshot r.  Reading
\* rooms[this.room]!.members throws when r is undefined or lacks the room;
\* when no member lists the producer: consumer.close(), emit close-consumer,
\* delete the listener, onEnd().
Listener(st, id, r) ==
  IF ~r.defined \/ Room \notin DOMAIN r.map
  THEN [st EXCEPT !.threw = TRUE]
  ELSE IF ~Listed(r.map, payload[id])
  THEN EndConsumer(st, id)
  ELSE st

\* Lines 44-46: the loop over Object.values(consumerRoomsUpdateListeners),
\* taken when the loop starts; a throw ends it.
RECURSIVE RunListeners(_, _, _)
RunListeners(st, todo, r) ==
  IF todo = << >> \/ st.threw THEN st
  ELSE RunListeners(Listener([st EXCEPT !.invoked = @ \cup {Head(todo)}],
                             Head(todo), r),
                    Tail(todo), r)

\* A registry that keeps the entries of old which data does not replace.
StoreMerged(old, data) ==
  IF ~old.defined \/ ~data.defined THEN data
  ELSE Registry([r \in DOMAIN old.map \cup DOMAIN data.map |->
                   IF r \in DOMAIN data.map THEN data.map[r] ELSE old.map[r]])

\* Line 41: _rooms = data.result!
Store(old, data) == data

\* Lines 40-51: the rooms-updated handler of subscription i.  updated, invoked
\* and first record the subscriptions whose onUpdate, the consumers whose
\* listener and the subscriptions whose onFirstUpdate the delivery has called.
Handler(st, i, data) ==
  LET stored == [st EXCEPT !.rooms = Store(st.rooms, data),
                           !.updated = @ \cup {i}]
      looped == RunListeners(stored, stored.listeners, stored.rooms)
  IN  IF looped.threw THEN looped
      ELSE [looped EXCEPT !.subs[i] = TRUE,
                          !.first = IF st.subs[i] THEN @ ELSE @ \cup {i}]

\* The socket calls the handlers of 'rooms-updated' in subscription order; a
\* throw of one ends the delivery.
RECURSIVE Deliver(_, _, _)
Deliver(st, i, data) ==
  IF i > Len(st.subs) \/ st.threw THEN st
  ELSE Deliver(Handler(st, i, data), i + 1, data)

\* The state a delivery starts from.
Delivery ==
  [rooms |-> rooms, listeners |-> listeners, subs |-> subs,
   closed |-> closed, closeSent |-> closeSent, onEnd |-> onEnd,
   threw |-> FALSE, invoked |-> {}, updated |-> {}, first |-> {},
   early |-> {}]

\* What the delivery of a push of data does in the current state.
Delivered(data) == Deliver(Delivery, 1, data)

\* No member of the session's room in snapshot r lists the producer of pl in
\* the list of pl's kind; a snapshot without the room has no such member.
ProducerAbsent(r, pl) ==
  \/ ~r.defined
  \/ Room \notin DOMAIN r.map
  \/ \A m \in DOMAIN r.map[Room].members :
       IF pl.producerKind = "audio"
       THEN pl.producerId \notin r.map[Room].members[m].audioProducerIds
       ELSE pl.producerId \notin r.map[Room].members[m].videoProducerIds

\* The server pushes rooms-updated with data.result = data.  owed is kept
\* only while a later push can still follow within MaxPushes.
Push(data) ==
  /\ pushCount < MaxPushes
  /\ LET out == Delivered(data)
     IN  /\ rooms' = out.rooms
         /\ listeners' = out.listeners
         /\ subs' = out.subs
         /\ closed' = out.closed
         /\ closeSent' = out.closeSent
         /\ onEnd' = out.onEnd
  /\ pushCount' = pushCount + 1
  /\ lastPush' = data
  /\ pushedTo' = [i \in DOMAIN subs |-> TRUE]
  /\ owed' = [c \in Calls |->
               IF promise[c].state # "pending" \/ pushCount + 1 >= MaxPushes
               THEN "no"
               ELSE IF ProducerAbsent(data, payload[c]) THEN "missed"
               ELSE owed[c]]
  /\ UNCHANGED << recvTransport, cpc, promise, consumerVar, payload,
                  cTransport, errAt, resumeSent, afterFail, resumeAcked,
                  late, producerVars, transports, connectsLeft, roomVars >>

\* Lines 34-53: subscribeSocketToRooms installs one more handler.
Subscribe ==
  /\ Len(subs) < MaxSubs
  /\ subs' = Append(subs, FALSE)
  /\ pushedTo' = Append(pushedTo, FALSE)
  /\ UNCHANGED << rooms, listeners, pushCount, lastPush, closed, closeSent,
                  onEnd, consumerVars, producerVars, transports, connectsLeft,
                  roomVars >>

\* ------------------------------------------------- createRoom, joinRoom

\* A createRoom that resolves whatever the acknowledgement carries.
CreateRoomResolves(call, ack) == [call EXCEPT !.pc = "returned", !.ack = ack]

\* Lines 70-72: if (res.error) throw new Error(res.error.type)
CreateRoomResult(call, ack) ==
  IF ack # "none"
  THEN [call EXCEPT !.pc = "threw", !.ack = ack, !.out = ack]
  ELSE [call EXCEPT !.pc = "returned", !.ack = ack]

\* Lines 66-68: createRoom(R) emits create-room and awaits the acknowledgement.
CreateRoom(k, R) ==
  /\ cr[k].pc = "idle"
  /\ \A k1 \in 1..(k - 1) : cr[k1].pc # "idle"
  /\ cr' = [cr EXCEPT ![k] =
              [@ EXCEPT !.pc = "sent", !.room = R,
                        !.dup = \E k1 \in RoomCalls :
                                   /\ cr[k1].pc = "returned"
                                   /\ cr[k1].room = R]]
  /\ UNCHANGED << registryVars, consumerVars, producerVars, transports,
                  connectsLeft, serverRooms, jr, cl, tClosed, ctSent,
                  ctOut >>

\* The server's answers to create-room: it refuses a name it has created and
\* may refuse any request as unauthorized.
CreateAcks(created, R) ==
  IF R \in created THEN {"RoomAlreadyExists"} ELSE {"none", "Unauthorized"}

\* A createRoom that on success adds the room, without members, to the local
\* registry.
CreateRoomAckStores(k, ack) ==
  /\ cr[k].pc = "sent"
  /\ ack \in CreateAcks(serverRooms, cr[k].room)
  /\ serverRooms' = IF ack = "none" THEN serverRooms \cup {cr[k].room}
                    ELSE serverRooms
  /\ cr' = [cr EXCEPT ![k] = CreateRoomResult(@, ack)]
  /\ rooms' = IF ack = "none" /\ rooms.defined
              THEN Registry((cr[k].room :> [members |-> NoMembers])
                              @@ rooms.map)
              ELSE rooms
  /\ UNCHANGED << listeners, subs, pushCount, lastPush, closed, closeSent,
                  onEnd, pushedTo, consumerVars, producerVars, transports,
                  connectsLeft, jr, cl, tClosed, ctSent, ctOut >>

\* Lines 66-72: the server answers create-room and createRoom resumes.
CreateRoomAck(k, ack) ==
  /\ cr[k].pc = "sent"
  /\ ack \in CreateAcks(serverRooms, cr[k].room)
  /\ serverRooms' = IF ack = "none" THEN serverRooms \cup {cr[k].room}
                    ELSE serverRooms
  /\ cr' = [cr EXCEPT ![k] = CreateRoomResult(@, ack)]
  /\ UNCHANGED << registryVars, consumerVars, producerVars, transports,
                  connectsLeft, jr, cl, tClosed, ctSent, ctOut >>

\* R is a key of the stored registry.
KeyOf(reg, R) == reg.defined /\ R \in DOMAIN reg.map

\* Lines 86-88: if (!_rooms[payload.roomName]) throw new Error("Room does not
\* exist"); indexing an undefined _rooms throws a TypeError.
RoomCheck(reg, R) ==
  IF ~reg.defined THEN "TypeError"
  ELSE IF R \notin DOMAIN reg.map THEN "Room does not exist"
  ELSE "none"

\* Lines 82-92: joinRoom(R) up to its first await.
JoinRoom(j, R) ==
  /\ jr[j].pc = "idle"
  /\ \A j1 \in 1..(j - 1) : jr[j1].pc # "idle"
  /\ LET thrown == RoomCheck(rooms, R)
     IN  jr' = [jr EXCEPT ![j] =
                  [@ EXCEPT !.pc = IF thrown = "none" THEN "load" ELSE "threw",
                            !.room = R,
                            !.absent = ~KeyOf(rooms, R),
                            !.created = \E k \in RoomCalls :
                                          /\ cr[k].pc = "returned"
                                          /\ cr[k].room = R,
                            !.out = thrown]]
  /\ UNCHANGED << registryVars, consumerVars, producerVars, transports,
                  connectsLeft, serverRooms, cr, cl, tClosed, ctSent,
                  ctOut >>

\* A check that lets a device without codecs through.
CodecCheckNever(n) == "none"

\* Lines 97-99: if (device.rtpCapabilities.codecs?.length === 0) throw new
\* Error("No codecs supported")
CodecCheck(n) == IF n = 0 THEN "No codecs supported" ELSE "none"

\* Lines 92-101: the device has loaded the room's capabilities with n codecs;
\* joinRoom throws or returns the RoomClient.
JoinRoomLoaded(j, n) ==
  /\ jr[j].pc = "load"
  /\ LET thrown == CodecCheck(n)
     IN  jr' = [jr EXCEPT ![j] =
                  [@ EXCEPT !.pc = IF thrown = "none" THEN "returned"
                                   ELSE "threw",
                            !.codecs = n,
                            !.out = IF thrown = "none" THEN "RoomClient"
                                    ELSE thrown]]
  /\ UNCHANGED << registryVars, consumerVars, producerVars, transports,
                  connectsLeft, serverRooms, cr, cl, tClosed, ctSent,
                  ctOut >>

\* ------------------------------------------------- close

\* A check that takes an absent transport for a present one.
PresentAlways(field) == TRUE

\* Lines 454 and 460: if (this.sendTransport), if (this.recvTransport)
Present(field) == field # NoTransport

\* A transport whose close() raises when it is closed already.
CloseRaisesTwice(closedSet, t) == t \in closedSet

\* Lines 455 and 461: close() of a transport returns at once when the
\* transport is closed already, and never raises.
CloseRaises(closedSet, t) == FALSE

\* Lines 455 and 461: field.close(); calling it on null is a TypeError.
CloseTransport(closedSet, field) ==
  IF field = NoTransport \/ CloseRaises(closedSet, field)
  THEN [threw |-> TRUE, closedSet |-> closedSet]
  ELSE [threw |-> FALSE, closedSet |-> closedSet \cup {field}]

\* Lines 455 and 461: a transport that is closed closes the consumers that
\* were created on it.
ConsumersOf(t) ==
  {c \in Calls : cTransport[c] = t /\ consumerVar[c] # NoConsumer}

\* Lines 460-461: the second if of close(), up to its await.
CloseRecv(k) ==
  IF Present(recvTransport)
  THEN LET r == CloseTransport(tClosed, recvTransport)
       IN  /\ cl' = [cl EXCEPT ![k] = IF r.threw THEN "threw" ELSE "recv"]
           /\ tClosed' = r.closedSet
           /\ closed' = IF r.threw THEN closed
                        ELSE closed \cup ConsumersOf(recvTransport)
  ELSE /\ cl' = [cl EXCEPT ![k] = "returned"]
       /\ UNCHANGED << tClosed, closed >>

\* Lines 453-455: close() up to its first await.
Close(k) ==
  /\ cl[k] = "idle"
  /\ \A k1 \in 1..(k - 1) : cl[k1] # "idle"
  /\ IF Present(sendTransport)
     THEN LET r == CloseTransport(tClosed, sendTransport)
          IN  /\ cl' = [cl EXCEPT ![k] = IF r.threw THEN "threw" ELSE "send"]
              /\ tClosed' = r.closedSet
              /\ UNCHANGED closed
     ELSE CloseRecv(k)
  /\ UNCHANGED << rooms, listeners, subs, pushCount, lastPush, closeSent,
                  onEnd, pushedTo, consumerVars, producerVars, transports,
                  connectsLeft, serverRooms, cr, jr, ctSent, ctOut >>

\* Lines 456-461: after the first await close() emits close-transport with
\* this.sendTransport.id, awaits nothing, and goes on to the second if.
CloseSendResume(k) ==
  /\ cl[k] = "send"
  /\ ctSent' = [ctSent EXCEPT ![sendTransport] = @ + 1]
  /\ ctOut' = [ctOut EXCEPT ![sendTransport] = @ + 1]
  /\ CloseRecv(k)
  /\ UNCHANGED << rooms, listeners, subs, pushCount, lastPush, closeSent,
                  onEnd, pushedTo, consumerVars, producerVars, transports,
                  connectsLeft, serverRooms, cr, jr >>

\* Lines 462-465: after the second await close() emits close-transport with
\* this.recvTransport.id, awaits nothing, and returns.
CloseRecvResume(k) ==
  /\ cl[k] = "recv"
  /\ ctSent' = [ctSent EXCEPT ![recvTransport] = @ + 1]
  /\ ctOut' = [ctOut EXCEPT ![recvTransport] = @ + 1]
  /\ cl' = [cl EXCEPT ![k] = "returned"]
  /\ UNCHANGED << registryVars, consumerVars, producerVars, transports,
                  connectsLeft, serverRooms, cr, jr, tClosed >>

\* Lines 456 and 462: the server answers a close-transport, with or without an
\* error; the promise of emitWithAck was dropped, so nothing reads the answer.
CloseTransportAck(t, res) ==
  /\ ctOut[t] > 0
  /\ ctOut' = [ctOut EXCEPT ![t] = @ - 1]
  /\ UNCHANGED << registryVars, consumerVars, producerVars, transports,
                  connectsLeft, serverRooms, cr, jr, cl, tClosed, ctSent >>

\* A call taken out of a transport's queue.
Without(queue, call) == SelectSeq(queue, LAMBDA x : x # call)

\* Lines 287-292: consume() on a closed transport, or queued on a transport
\* when it is closed, is rejected by the media engine; the await throws inside
\* the async executor, which settles nothing.
ConsumeRejected(c) ==
  /\ cpc[c] = "consume"
  /\ cTransport[c] \in tClosed
  /\ transports' = [transports EXCEPT ![cTransport[c]].queue = Without(@, c)]
  /\ cpc' = [cpc EXCEPT ![c] = "threw"]
  /\ UNCHANGED << registryVars, producerVars, recvTransport, promise,
                  consumerVar, payload, cTransport, errAt, resumeSent,
                  afterFail, resumeAcked, connectsLeft, roomVars, owed,
                  late >>

\* Line 186: produce() on a closed transport, or queued on a transport when
\* it is closed, is rejected by the media engine; the await throws and
\* createProducer rejects.
ProduceRejected(p) ==
  /\ ppc[p] \in {"produce", "prodRpc", "hung"}
  /\ pTransport[p] \in tClosed
  /\ transports' = [transports EXCEPT ![pTransport[p]].queue = Without(@, p)]
  /\ pPromise' = [pPromise EXCEPT ![p] = Settle(@, "rejected", "InvalidState")]
  /\ ppc' = [ppc EXCEPT ![p] = "threw"]
  /\ UNCHANGED << registryVars, consumerVars, sendTransport, pTransport,
                  pErrAt, pLog, connectsLeft, roomVars >>

\* ------------------------------------------------- createProducer

\* A createProducer that asks for a transport of its own whether or not the
\* session has one.
CreateProducerJoins(p) ==
  /\ ppc[p] = "idle"
  /\ \A q \in ProdCalls : q < p => ppc[q] # "idle"
  /\ pPromise' = [pPromise EXCEPT ![p] = Pending]
  /\ ppc' = [ppc EXCEPT ![p] = "join"]
  /\ pLog' = [pLog EXCEPT ![p] =
               [joins |-> 1, produces |-> 0,
                late |-> sendTransport \in tClosed,
                seq |-> \A q \in ProdCalls :
                          q < p => /\ pLog[q].seq
                                   /\ pPromise[q].state = "resolved"]]
  /\ UNCHANGED << registryVars, consumerVars, sendTransport, pErrAt,
                  pTransport, transports, connectsLeft, roomVars >>

\* Lines 136-140 and 186: createProducer up to its first await: join-room
\* when no Send Transport is cached, else produce() on the cached one.
CreateProducer(p) ==
  /\ ppc[p] = "idle"
  /\ \A q \in ProdCalls : q < p => ppc[q] # "idle"
  /\ pPromise' = [pPromise EXCEPT ![p] = Pending]
  /\ IF sendTransport = NoTransport
     THEN /\ ppc' = [ppc EXCEPT ![p] = "join"]
          /\ UNCHANGED << pTransport, transports >>
     ELSE /\ ppc' = [ppc EXCEPT ![p] = "produce"]
          /\ pTransport' = [pTransport EXCEPT ![p] = sendTransport]
          /\ transports' = [transports EXCEPT ![sendTransport].queue = Append(@, p)]
  /\ pLog' = [pLog EXCEPT ![p] =
               [joins |-> IF sendTransport = NoTransport THEN 1 ELSE 0,
                produces |-> 0,
                late |-> sendTransport \in tClosed,
                seq |-> \A q \in ProdCalls :
                          q < p => /\ pLog[q].seq
                                   /\ pPromise[q].state = "resolved"]]
  /\ UNCHANGED << registryVars, consumerVars, sendTransport, pErrAt, connectsLeft,
                  roomVars >>

\* Lines 142-144: throw new Error(creds.error.type) rejects the async function.
JoinProducerError(p, e) ==
  /\ ppc[p] = "join"
  /\ pPromise' = [pPromise EXCEPT ![p] = Settle(@, "rejected", e)]
  /\ pErrAt' = [pErrAt EXCEPT ![p] = [rpc |-> "join-room", kind |-> e]]
  /\ ppc' = [ppc EXCEPT ![p] = "threw"]
  /\ UNCHANGED << registryVars, consumerVars, sendTransport, pTransport,
                  transports, connectsLeft,
                  roomVars, pLog >>

\* Lines 148-188: create the Send Transport, store it in this.sendTransport,
\* register the handlers, call produce() on it.
JoinProducerOk(p) ==
  /\ ppc[p] = "join"
  /\ LET t == Len(transports) + 1 IN
       /\ transports' = Append(transports,
                               [NewTransport("send", p) EXCEPT !.queue = << p >>])
       /\ sendTransport' = t
       /\ pTransport' = [pTransport EXCEPT ![p] = t]
  /\ ppc' = [ppc EXCEPT ![p] = "produce"]
  /\ UNCHANGED << registryVars, consumerVars, pPromise, pErrAt, connectsLeft,
                  roomVars, pLog >>

\* Lines 168-175: once the transport is set up the media engine fires
\* 'produce' for the call at the head of its queue; the handler emits
\* transport-produce.
ProduceEvent(p) ==
  /\ ppc[p] = "produce"
  /\ pTransport[p] \notin tClosed
  /\ transports[pTransport[p]].connRpc = "ok"
  /\ Head(transports[pTransport[p]].queue) = p
  /\ ppc' = [ppc EXCEPT ![p] = "prodRpc"]
  /\ pLog' = [pLog EXCEPT ![p].produces = @ + 1]
  /\ UNCHANGED << registryVars, consumerVars, sendTransport, pPromise,
                  pTransport, pErrAt, transports, connectsLeft,
                  roomVars >>

\* Lines 181 and 186-190: callback({id}) lets produce() return the producer,
\* which createProducer returns.
ProduceOk(p) ==
  /\ ppc[p] = "prodRpc"
  /\ pTransport[p] \notin tClosed
  /\ transports' = [transports EXCEPT ![pTransport[p]].queue = Tail(@)]
  /\ pPromise' = [pPromise EXCEPT ![p] = Settle(@, "resolved", p)]
  /\ ppc' = [ppc EXCEPT ![p] = "done"]
  /\ UNCHANGED << registryVars, consumerVars, sendTransport, pTransport,
                  pErrAt, connectsLeft,
                  roomVars, pLog >>

\* A failed transport-produce that closes the Send Transport and drops it from
\* the session.
ProduceErrorCloses(p, e) ==
  /\ ppc[p] = "prodRpc"
  /\ pErrAt' = [pErrAt EXCEPT ![p] = [rpc |-> "transport-produce", kind |-> e]]
  /\ ppc' = [ppc EXCEPT ![p] = "hung"]
  /\ tClosed' = tClosed \cup {pTransport[p]}
  /\ sendTransport' = NoTransport
  /\ UNCHANGED << registryVars, consumerVars, pPromise, pTransport,
                  transports, connectsLeft, pLog, serverRooms, cr, jr, cl,
                  ctSent, ctOut >>

\* Lines 177-179: the async handler throws; it was given no errback, so
\* produce() is never answered.
ProduceError(p, e) ==
  /\ ppc[p] = "prodRpc"
  /\ pErrAt' = [pErrAt EXCEPT ![p] = [rpc |-> "transport-produce", kind |-> e]]
  /\ ppc' = [ppc EXCEPT ![p] = "hung"]
  /\ UNCHANGED << registryVars, consumerVars, sendTransport, pPromise,
                  pTransport, transports, connectsLeft,
                  roomVars, pLog >>

\* ------------------------------------------------- specification

Transports == 1..(MaxCalls + MaxProdCalls)

ConsumerNext ==
  \/ \E c \in Calls, pl \in Payloads : CreateConsumer(c, pl)
  \/ \E c \in Calls, e \in JoinErrors : JoinConsumerError(c, e)
  \/ \E c \in Calls : JoinConsumerOk(c)
  \/ \E c \in Calls, e \in ConsumeErrors : TransportConsumeError(c, e)
  \/ \E c \in Calls : TransportConsumeOk(c)
  \/ \E c \in Calls : ConsumeReturn(c)
  \/ \E c \in Calls, e \in ResumeErrors : ResumeSyncError(c, e)
  \/ \E c \in Calls : ResumeSyncOk(c)
  \/ \E t \in Transports : ResumeHandlerOk(t)
  \/ \E t \in Transports, e \in ResumeErrors : ResumeHandlerError(t, e)

TransportNext ==
  \/ \E t \in Transports : ConnectEvent(t)
  \/ \E t \in Transports : ConnectOk(t)
  \/ \E t \in Transports, e \in ConnectErrors : ConnectError(t, e)
  \/ \E t \in Transports, s \in {"connecting", "connected", "disconnected"} :
       ConnectionStateChange(t, s)

RegistryNext ==
  \/ \E data \in Snapshots : Push(data)
  \/ Subscribe

ProducerNext ==
  \/ \E p \in ProdCalls : CreateProducer(p)
  \/ \E p \in ProdCalls, e \in JoinErrors : JoinProducerError(p, e)
  \/ \E p \in ProdCalls : JoinProducerOk(p)
  \/ \E p \in ProdCalls : ProduceEvent(p)
  \/ \E p \in ProdCalls : ProduceOk(p)
  \/ \E p \in ProdCalls, e \in ProduceErrors : ProduceError(p, e)

\* The receiving side: createConsumer calls, their transports, the registry.
RoomNext ==
  \/ \E k \in RoomCalls, R \in RoomNames : CreateRoom(k, R)
  \/ \E k \in RoomCalls, ack \in CreateErrors \cup {"none"} :
       CreateRoomAck(k, ack)
  \/ \E j \in Joins, R \in RoomNames : JoinRoom(j, R)
  \/ \E j \in Joins, n \in CodecCounts : JoinRoomLoaded(j, n)

CloseNext ==
  \/ \E k \in Closes : Close(k)
  \/ \E k \in Closes : CloseSendResume(k)
  \/ \E k \in Closes : CloseRecvResume(k)
  \/ \E t \in Transports, res \in {"none"} \cup ConnectErrors :
       CloseTransportAck(t, res)
  \/ \E c \in Calls : ConsumeRejected(c)
  \/ \E p \in ProdCalls : ProduceRejected(p)

Next == ConsumerNext \/ TransportNext \/ RegistryNext

Spec == Init /\ [][Next]_vars

\* The sending side: createProducer calls and their transports.
ProducerSpec == Init /\ [][ProducerNext \/ TransportNext]_vars

\* createConsumer calls and their transports, with no push.
ConsumerSpec == ConsumerInit /\ [][ConsumerNext \/ TransportNext]_vars


\* The module before any session: the registry, createRoom and joinRoom.
RoomSpec == RoomInit /\ [][RoomNext \/ RegistryNext]_vars

\* One createConsumer call and one createProducer call of a session.
SessionNext ==
  \/ \E pl \in Payloads : CreateConsumer(1, pl)
  \/ \E e \in JoinErrors : JoinConsumerError(1, e)
  \/ JoinConsumerOk(1)
  \/ \E e \in ConsumeErrors : TransportConsumeError(1, e)
  \/ TransportConsumeOk(1)
  \/ ConsumeReturn(1)
  \/ \E e \in ResumeErrors : ResumeSyncError(1, e)
  \/ ResumeSyncOk(1)
  \/ \E t \in Transports : ResumeHandlerOk(t)
  \/ \E t \in Transports, e \in ResumeErrors : ResumeHandlerError(t, e)
  \/ CreateProducer(1)
  \/ \E e \in JoinErrors : JoinProducerError(1, e)
  \/ JoinProducerOk(1)
  \/ ProduceEvent(1)
  \/ ProduceOk(1)
  \/ \E e \in ProduceErrors : ProduceError(1, e)

\* A session with one call of each side, its transports, and close().
CloseSpec == Init /\ [][CloseNext \/ SessionNext \/ TransportNext]_vars

\* The snapshots pushed to a session that is closed in the end: an error
\* Result, the room without members, the room with the producer listed.
LifeSnapshots ==
  {Undefined, Registry(Room :> [members |-> NoMembers]), InitSnapshot}

LifeNext ==
  \/ \E k \in Closes : Close(k)
  \/ \E k \in Closes : CloseSendResume(k)
  \/ \E k \in Closes : CloseRecvResume(k)
  \/ \E c \in Calls : ConsumeRejected(c)
  \/ \E p \in ProdCalls : ProduceRejected(p)
  \/ \E data \in LifeSnapshots : Push(data)

\* The life of a session: one call of each side, pushes, close(); the
\* close-transport notifications get no answer.
LifeSpec == Init /\ [][LifeNext \/ SessionNext \/ TransportNext]_vars

\* The steps of close() and of the media engine on a closed Recv Transport.
CloseRecvNext ==
  \/ \E k \in Closes : Close(k)
  \/ \E k \in Closes : CloseRecvResume(k)
  \/ \E c \in Calls : ConsumeRejected(c)

\* The steps of close() and of the media engine on a closed Send Transport.
CloseSendNext ==
  \/ \E k \in Closes : Close(k)
  \/ \E k \in Closes : CloseSendResume(k)
  \/ \E p \in ProdCalls : ProduceRejected(p)

\* createConsumer calls before, during and after close() calls.
ConsumerReuseSpec ==
  Init /\ [][CloseRecvNext \/ ConsumerNext \/ TransportNext]_vars

\* createProducer calls before, during and after close() calls.
ProducerReuseSpec ==
  Init /\ [][CloseSendNext \/ ProducerNext \/ TransportNext]_vars

\* ------------------------------------------------- properties

\* A step of the code or an acknowledgement of an RPC in flight on the
\* receiving side: everything but a new invocation, a report of the media
\* engine and a push.
ConsumerProgress ==
  \/ \E c \in Calls, e \in JoinErrors : JoinConsumerError(c, e)
  \/ \E c \in Calls : JoinConsumerOk(c)
  \/ \E c \in Calls, e \in ConsumeErrors : TransportConsumeError(c, e)
  \/ \E c \in Calls : TransportConsumeOk(c)
  \/ \E c \in Calls : ConsumeReturn(c)
  \/ \E c \in Calls, e \in ResumeErrors : ResumeSyncError(c, e)
  \/ \E c \in Calls : ResumeSyncOk(c)
  \/ \E t \in Transports : ResumeHandlerOk(t)
  \/ \E t \in Transports, e \in ResumeErrors : ResumeHandlerError(t, e)
  \/ \E t \in Transports : ConnectEvent(t)
  \/ \E t \in Transports : ConnectOk(t)
  \/ \E t \in Transports, e \in ConnectErrors : ConnectError(t, e)

\* Nothing is in flight on the receiving side.
ConsumerQuiet == ~ENABLED ConsumerProgress

Settled(p) == p.state \in {"resolved", "rejected"}

RecvTransports == {t \in DOMAIN transports : transports[t].dir = "recv"}
SendTransports == {t \in DOMAIN transports : transports[t].dir = "send"}

\* C1: at most one resume-consume RPC is ever emitted for a consumer id,
\* whichever of the two triggers fires, over any connection-state changes.
C1_AtMostOneResume == \A id \in Calls : resumeSent[id] <= 1

\* C2: a createConsumer call whose transport-consume was acknowledged with
\* TransportCannotConsumeProducer is rejected with TransportCannotConsumeProducer.
C2_ConsumeErrorRejects ==
  \A c \in Calls :
    (errAt[c] = [rpc |-> "transport-consume", kind |-> "TransportCannotConsumeProducer"])
      => promise[c] = [state |-> "rejected", value |-> "TransportCannotConsumeProducer"]

\* C3: a createConsumer call made after a call failed at transport-consume,
\* with all its RPCs acknowledged successfully and the Recv Transport
\* connected, has resolved with a consumer on the cached Recv Transport once
\* nothing is in flight any more.
C3_RetryResolves ==
  \A c \in Calls :
    ( /\ afterFail[c]
      /\ \A d \in Calls : d # c => cpc[d] \in {"idle", "threw"}
      /\ errAt[c] = NoError
      /\ ConsumerQuiet
      /\ RecvConnected )
    => /\ promise[c] = [state |-> "resolved", value |-> c]
       /\ cTransport[c] = recvTransport

\* The push of this step was processed to its end and its snapshot lists
\* the session's room, with no member listing the producer of call c under
\* the call's kind.
AbsentPush(c) ==
  /\ pushCount' = pushCount + 1
  /\ rooms'.defined
  /\ Room \in DOMAIN rooms'.map
  /\ ~Listed(rooms'.map, payload[c])

\* C4: a consumer returned by createConsumer is closed by the end of a push
\* whose snapshot has no member of the room listing its producer under its kind.
C4_AbsentProducerCloses ==
  [][ \A c \in Calls :
        (promise[c].state = "resolved" /\ AbsentPush(c)) => consumerVar[c] \in closed' ]_vars

\* C5: onEnd of a consumer is invoked only by a push whose snapshot no longer
\* lists its producer, together with the consumer's closing, and never more
\* than once, whatever number of subscriptions and later pushes.
C5_OnEndOnce ==
  [][ \A c \in Calls :
        /\ onEnd'[c] <= 1
        /\ (onEnd'[c] # onEnd[c]) => (AbsentPush(c) /\ c \notin closed /\ c \in closed')
        /\ (c \notin closed /\ c \in closed') => onEnd'[c] = onEnd[c] + 1 ]_vars

\* C5 happens: onEnd has fired once, two subscriptions are installed, and a
\* later push lists the producer again.
C5_Witness ==
  \E c \in Calls :
    /\ onEnd[c] = 1
    /\ c \in closed
    /\ Len(subs) >= 2
    /\ pushCount >= 2
    /\ rooms.defined /\ Room \in DOMAIN rooms.map /\ Listed(rooms.map, payload[c])

\* C6: a createProducer call one of whose RPCs (join-room, connect-transport,
\* transport-produce) was acknowledged with an error is rejected with that
\* error's kind.
C6_ProducerErrorRejects ==
  \A p \in ProdCalls :
    pErrAt[p] # NoError
      => pPromise[p] = [state |-> "rejected", value |-> pErrAt[p].kind]

\* C7: a createConsumer call whose join-room, connect-transport or
\* resume-consume was acknowledged with an error is not left pending once
\* nothing is in flight any more.
C7_ConsumerErrorSettles ==
  \A c \in Calls :
    ( /\ errAt[c].rpc \in {"join-room", "connect-transport", "resume-consume"}
      /\ ConsumerQuiet )
    => Settled(promise[c])

\* C8: with every RPC acknowledged successfully and the Recv Transport
\* connected, no createConsumer invocation is pending once nothing is in
\* flight any more.
C8_EveryCallSettles ==
  ( /\ \A c \in Calls : errAt[c] = NoError
    /\ recvTransport # NoTransport
    /\ ConsumerQuiet
    /\ RecvConnected )
  => \A c \in Calls : cpc[c] # "idle" => Settled(promise[c])

\* C9: the session creates at most one Send Transport and at most one Recv
\* Transport.
C9_OneTransportPerDirection ==
  /\ Cardinality(RecvTransports) <= 1
  /\ Cardinality(SendTransports) <= 1

\* C10: after N >= 1 pushes the stored registry is the content of push N.
C10_RegistryIsLastPush == pushCount >= 1 => rooms = lastPush

\* C10 happens: after two pushes the room the registry listed at first is gone.
C10_Witness ==
  /\ pushCount >= 2
  /\ rooms.defined
  /\ Room \notin DOMAIN rooms.map

\* C11: a joinRoom(R) made while R is not a key of the stored registry fails
\* with RoomDoesNotExist (the Error "Room does not exist") and returns no
\* session.
C11_AbsentRoomFails ==
  \A j \in Joins :
    jr[j].absent => jr[j].pc = "threw" /\ jr[j].out = "Room does not exist"

\* C12: createConsumer is resolved only with a consumer whose id a
\* resume-consume RPC carried that has been acknowledged without error.
C12_ResolvedAfterResumeAck ==
  \A c \in Calls :
    promise[c].state = "resolved" => promise[c].value \in resumeAcked

\* Both paths have resolved a call: one by the post-creation check, which
\* registered its listener, one by the connectivity handler, which did not.
C12_Witness ==
  \E c, d \in Calls :
    /\ promise[c].state = "resolved" /\ promise[d].state = "resolved"
    /\ \E i \in DOMAIN listeners : listeners[i] = promise[c].value
    /\ \A i \in DOMAIN listeners : listeners[i] # promise[d].value

\* C13: in every step that resolves a createConsumer call, by either path, a
\* listener keyed by the id of the consumer it resolves with is registered in
\* the listener table after the step.
C13_ResolvedHasListener ==
  [][\A c \in Calls :
       (promise[c].state # "resolved" /\ promise'[c].state = "resolved")
         => \E i \in DOMAIN listeners' : listeners'[i] = promise'[c].value]_vars

\* C14: a close() called while the session has created no transport returns
\* in that very step, emits no RPC and changes nothing but its own completion.
C14_CloseWithoutTransportsIsNoOp ==
  [][\A k \in Closes :
       (cl[k] = "idle" /\ cl'[k] # "idle" /\ transports = << >>)
         => /\ cl'[k] = "returned"
            /\ UNCHANGED << registryVars, consumerVars, producerVars,
                            transports, connectsLeft, serverRooms, cr, jr,
                            tClosed, ctSent, ctOut >>]_vars

\* A close() has returned on a session that never created a transport.
C14_Witness == \E k \in Closes : cl[k] = "returned" /\ transports = << >>

\* C15: no close() call ever raises, and a close() call in flight can always
\* take its next step: it waits for no answer to its close-transport
\* notifications.
C15_CloseNeverFails ==
  \A k \in Closes :
    /\ cl[k] # "threw"
    /\ cl[k] = "send" => ENABLED CloseSendResume(k)
    /\ cl[k] = "recv" => ENABLED CloseRecvResume(k)

\* Two close() calls have returned on a session with both transports, with a
\* close-transport notification answered and another still unanswered.
C15_Witness ==
  /\ \A k \in Closes : cl[k] = "returned"
  /\ sendTransport # NoTransport /\ recvTransport # NoTransport
  /\ {sendTransport, recvTransport} \subseteq tClosed
  /\ ctOut[sendTransport] > 0
  /\ ctOut[recvTransport] < ctSent[recvTransport]

\* C16: the delivery of every push calls the onUpdate of every subscription
\* made before it and the listener of every consumer registered before it.
C16_EveryListenerInvoked ==
  [][pushCount' = pushCount + 1 =>
       LET out == Delivered(lastPush')
       IN  /\ out.updated = DOMAIN subs
           /\ \A i \in DOMAIN listeners : listeners[i] \in out.invoked]_vars

\* C17: the delivery of a push calls the onFirstUpdate of a subscription
\* exactly when it is the first push since that subscription was made.
C17_FirstUpdateOnFirstPush ==
  [][pushCount' = pushCount + 1 =>
       LET out == Delivered(lastPush')
       IN  \A i \in DOMAIN subs : i \in out.first <=> ~pushedTo[i]]_vars

\* C18: a createRoom call that has ended was rejected with the error kind of
\* its acknowledgement when that carried one and resolved otherwise; a call
\* made after a createRoom of the same name had resolved was rejected with
\* RoomAlreadyExists.
C18_CreateRoomFollowsAck ==
  \A k \in RoomCalls :
    cr[k].pc \in {"threw", "returned"} =>
      /\ cr[k].ack # "none" => cr[k].pc = "threw" /\ cr[k].out = cr[k].ack
      /\ cr[k].ack = "none" => cr[k].pc = "returned"
      /\ cr[k].dup => cr[k].pc = "threw" /\ cr[k].out = "RoomAlreadyExists"

\* A second createRoom of a name was made after the first had resolved, and
\* was rejected with RoomAlreadyExists.
C18_Witness ==
  \E k \in RoomCalls :
    cr[k].dup /\ cr[k].pc = "threw" /\ cr[k].out = "RoomAlreadyExists"

\* C19: a joinRoom call whose device reported zero codecs for the room's
\* capabilities fails with UnsupportedMedia (the Error "No codecs supported")
\* and returns no session.
C19_NoCodecsFails ==
  \A j \in Joins :
    jr[j].codecs = 0 =>
      jr[j].pc = "threw" /\ jr[j].out = "No codecs supported"

\* A joinRoom of a room present in the registry has loaded a device with zero
\* codecs and failed.
C19_Witness ==
  \E j \in Joins :
    /\ jr[j].room \in RoomNames /\ ~jr[j].absent
    /\ jr[j].codecs = 0 /\ jr[j].pc = "threw"

\* C20: of createProducer calls made one after the other, each after the
\* earlier one resolved, the first issues one join-room and creates the Send
\* Transport; a later one issues no join-room, creates no transport, works
\* on the first call's transport, and has issued exactly one
\* transport-produce when it resolves (never more than one).
C20_LaterCallsReuseTransport ==
  \A p \in ProdCalls :
    (ppc[p] # "idle" /\ pLog[p].seq) =>
      IF p = 1
      THEN /\ pLog[p].joins = 1
           /\ pPromise[p].state = "resolved" =>
                /\ pTransport[p] \in SendTransports
                /\ transports[pTransport[p]].owner = p
      ELSE /\ pLog[p].joins = 0
           /\ \A t \in SendTransports : transports[t].owner # p
           /\ pTransport[p] = pTransport[1]
           /\ pTransport[p] = sendTransport
           /\ pLog[p].produces <= 1
           /\ pPromise[p].state = "resolved" => pLog[p].produces = 1

\* A second createProducer call, made after the first resolved, has resolved.
C20_Witness ==
  \E p \in ProdCalls :
    p > 1 /\ pLog[p].seq /\ pPromise[p].state = "resolved"

\* A step in which a createConsumer or createProducer call fails: it meets an
\* error acknowledgement, or its executor or its produce() ends in a throw.
Failing ==
  \/ errAt' # errAt
  \/ pErrAt' # pErrAt
  \/ \E c \in Calls : cpc[c] # "threw" /\ cpc'[c] = "threw"
  \/ \E p \in ProdCalls : ppc[p] # "threw" /\ ppc'[p] = "threw"

\* A step that delivers a push, and with it the reconciliation pass.
Reconciling == pushCount' = pushCount + 1

\* C21: only a step of a close() call closes a transport; a reconciliation
\* pass and a failing creation leave the session's transport fields and the
\* set of closed transports as they were, and no step makes a transport
\* field absent again.
C21_ClosedOnlyByClose ==
  [][/\ tClosed' # tClosed => \E k \in Closes : cl'[k] # cl[k]
     /\ sendTransport # NoTransport => sendTransport' # NoTransport
     /\ recvTransport # NoTransport => recvTransport' # NoTransport
     /\ (Reconciling \/ Failing) =>
          /\ tClosed' = tClosed
          /\ sendTransport' = sendTransport
          /\ recvTransport' = recvTransport]_vars

\* Reconciliation has closed the consumer and the createProducer call has
\* failed, and both transports are still cached and open.
C21_Witness ==
  /\ onEnd[1] = 1 /\ 1 \in closed
  /\ ppc[1] \in {"threw", "hung"}
  /\ sendTransport # NoTransport /\ recvTransport # NoTransport
  /\ tClosed = {}

\* C22: on the snapshot of every push that carries one, the listener
\* registered for a consumer closes it if and only if no member of the
\* session's room lists its producer in the list of the consumer's kind.
C22_ClosesIffKindAbsent ==
  [][(Reconciling /\ lastPush'.defined) =>
       \A i \in DOMAIN listeners :
         LET id == listeners[i]
         IN  id \in Listener(Delivery, id, lastPush').closed
               <=> ProducerAbsent(lastPush', payload[id])]_vars

\* C23: the delivery of a push whose snapshot lacks the session's room closes
\* every consumer that had a listener registered, and reaches every listener
\* and every subscription.
C23_RoomGoneClosesAll ==
  [][(Reconciling /\ lastPush'.defined /\ Room \notin DOMAIN lastPush'.map) =>
       LET out == Delivered(lastPush')
       IN  /\ \A i \in DOMAIN listeners :
                /\ listeners[i] \in closed'
                /\ listeners[i] \in out.invoked
           /\ out.updated = DOMAIN subs]_vars

\* C24: when a push without the producer of a call came while the call was
\* in flight, the first push delivered after the call resolved, if it still
\* lacks the producer, leaves the consumer closed and onEnd invoked.
C24_MissedRemovalCaughtUp ==
  [][\A c \in Calls :
       (Reconciling /\ owed[c] = "due"
          /\ ProducerAbsent(lastPush', payload[c]))
         => promise[c].value \in closed' /\ onEnd'[c] >= 1]_vars

\* C25: a pass whose lookup finds the producer of a registered consumer
\* absent emits exactly one close-consumer for that consumer, in the same
\* step and so without an acknowledgement in between, closes the consumer,
\* removes its listener and calls onEnd once, after the close and the
\* removal; for any other consumer the pass emits nothing and calls nothing.
C25_OneCloseConsumerThenOnEnd ==
  [][(Reconciling /\ lastPush'.defined) =>
       LET out == Delivered(lastPush')
           Found(id) == /\ \E i \in DOMAIN listeners : listeners[i] = id
                        /\ Room \in DOMAIN lastPush'.map
                        /\ ~Listed(lastPush'.map, payload[id])
       IN  /\ out.early = {}
           /\ \A id \in Calls :
                IF Found(id)
                THEN /\ closeSent'[id] = closeSent[id] + 1
                     /\ onEnd'[id] = onEnd[id] + 1
                     /\ id \in closed'
                     /\ \A i \in DOMAIN listeners' : listeners'[i] # id
                ELSE /\ closeSent'[id] = closeSent[id]
                     /\ onEnd'[id] = onEnd[id]]_vars

\* A pass has ended a registered consumer whose producer the push lacks.
C25_Witness ==
  /\ pushCount >= 1
  /\ lastPush.defined
  /\ Room \in DOMAIN lastPush.map
  /\ \E id \in Calls :
       /\ closeSent[id] = 1
       /\ onEnd[id] = 1
       /\ id \in closed
       /\ ~Listed(lastPush.map, payload[id])

\* Call c of createConsumer issues an RPC in this step: join-room,
\* transport-consume, connect-transport from the 'connect' handler fired for
\* it, or resume-consume with its consumer.
ConsumerEmits(c) ==
  \/ cpc'[c] # cpc[c] /\ cpc'[c] \in {"join", "tconsume"}
  \/ resumeSent'[c] > resumeSent[c]
  \/ \E t \in DOMAIN transports :
       /\ transports[t].dir = "recv"
       /\ transports[t].connRpc = "none"
       /\ transports'[t].connRpc = "pending"
       /\ transports'[t].connCall = c

\* Call p of createProducer issues an RPC in this step: join-room,
\* connect-transport or transport-produce.
ProducerEmits(p) ==
  \/ ppc'[p] # ppc[p] /\ ppc'[p] \in {"join", "prodRpc"}
  \/ \E t \in DOMAIN transports :
       /\ transports[t].dir = "send"
       /\ transports[t].connRpc = "none"
       /\ transports'[t].connRpc = "pending"
       /\ transports'[t].connCall = p

\* C26: a call of createProducer or createConsumer issues each of its RPCs
\* at most once, and issues no RPC after one of its RPCs was acknowledged
\* with an error.
C26_NoRetry ==
  [][/\ \A c \in Calls :
          /\ errAt[c] # NoError => ~ConsumerEmits(c)
          /\ ConsumerEmits(c) => resumeSent'[c] <= 1
     /\ \A p \in ProdCalls :
          /\ pErrAt[p] # NoError => ~ProducerEmits(p)
          /\ pLog'[p].joins <= 1 /\ pLog'[p].produces <= 1]_vars

\* C27: a step in which an RPC of a call is acknowledged with an error
\* changes neither transport field, closes no transport and creates none;
\* after an error acknowledgement of join-room the field of that direction
\* is absent.
C27_ErrorKeepsTransports ==
  [][/\ (errAt' # errAt \/ pErrAt' # pErrAt) =>
          /\ sendTransport' = sendTransport
          /\ recvTransport' = recvTransport
          /\ tClosed' = tClosed
          /\ Len(transports') = Len(transports)
     /\ \A c \in Calls :
          (errAt'[c] # errAt[c] /\ errAt'[c].rpc = "join-room")
            => recvTransport' = NoTransport
     /\ \A p \in ProdCalls :
          (pErrAt'[p] # pErrAt[p] /\ pErrAt'[p].rpc = "join-room")
            => sendTransport' = NoTransport]_vars

\* C28: the connect callback of a transport is invoked (connRpc "ok") only
\* in the step that acknowledges without error a connect-transport RPC
\* emitted for that very transport; after an error acknowledgement it is
\* never invoked.
C28_CallbackAfterOwnConnect ==
  [][\A t \in DOMAIN transports :
       /\ (transports'[t].connRpc = "ok" /\ transports[t].connRpc # "ok")
            => /\ transports[t].connRpc = "pending"
               /\ transports[t].connTid = t
       /\ transports[t].connRpc = "err" => transports'[t].connRpc = "err"]_vars

\* C29: a step that emits resume-consume with consumer id emits it for a
\* consumer object that exists and whose Recv Transport reports connected.
C29_ResumeOnlyWhenConnected ==
  [][\A id \in Calls :
       resumeSent'[id] > resumeSent[id]
         => /\ consumerVar'[id] = id
            /\ cTransport'[id] \in DOMAIN transports'
            /\ transports'[cTransport'[id]].connectionState = "connected"]_vars

\* C30: once a close() call that closed the session's Recv Transport has
\* returned, a push finds no listener of a consumer registered, calls no
\* onEnd and emits no close-consumer.
C30_NoListenerAfterClose ==
  [][(/\ \E k \in Closes : cl[k] = "returned"
      /\ \A k \in Closes : cl[k] \in {"idle", "returned"}
      /\ recvTransport # NoTransport
      /\ recvTransport \in tClosed
      /\ Reconciling) =>
       /\ listeners = << >>
       /\ onEnd' = onEnd
       /\ closeSent' = closeSent]_vars

\* C31: a createConsumer or createProducer call invoked when close() had
\* closed the transport of its direction creates no transport, and once the
\* call can go no further its promise is rejected with InvalidState.
C31_LateCallFailsInvalidState ==
  /\ \A c \in Calls :
       late[c] =>
         /\ \A t \in DOMAIN transports :
              ~(transports[t].dir = "recv" /\ transports[t].owner = c)
         /\ cpc[c] \in {"threw", "end"} =>
              promise[c] = Settle(Pending, "rejected", "InvalidState")
  /\ \A p \in ProdCalls :
       pLog[p].late =>
         /\ \A t \in DOMAIN transports :
              ~(transports[t].dir = "send" /\ transports[t].owner = p)
         /\ ppc[p] \in {"threw", "hung", "done"} =>
              pPromise[p] = Settle(Pending, "rejected", "InvalidState")

\* C32: the server is sent at most one close-transport for a transport,
\* however many close() calls are made, and exactly one for a transport that
\* is closed once no close() call is in flight.
C32_OneCloseTransport ==
  \A t \in DOMAIN transports :
    /\ ctSent[t] <= 1
    /\ (t \in tClosed /\ \A k \in Closes : cl[k] \in {"idle", "returned"})
         => ctSent[t] = 1

\* C33: a push whose Result carries an error instead of a snapshot leaves
\* the stored registry as it was, and the stored registry is a snapshot
\* mapping after every step.
C33_ErrorPushKeepsRegistry ==
  [][/\ rooms'.defined
     /\ (Reconciling /\ ~lastPush'.defined) => rooms' = rooms]_vars

\* C34: no step of a createRoom call changes the stored registry, and a
\* joinRoom(R) invoked while R is not a key of the stored registry fails,
\* whether or not a createRoom(R) has succeeded before.
C34_CreateRoomLeavesRegistry ==
  [][/\ cr' # cr => rooms' = rooms
     /\ \A j \in Joins :
          (jr[j].pc = "idle" /\ jr'[j].pc # "idle"
             /\ ~KeyOf(rooms, jr'[j].room))
            => jr'[j].pc = "threw"]_vars

\* A joinRoom(R) made after a createRoom(R) had succeeded, with no R in the
\* stored registry, has failed.
C34_Witness ==
  \E j \in Joins :
    /\ jr[j].created /\ jr[j].absent
    /\ jr[j].room \in serverRooms
    /\ jr[j].pc = "threw"

\* C35: every connect-transport RPC carries the id of the transport whose
\* 'connect' event triggered it, and every transport-produce RPC the id of
\* the transport whose 'produce' event triggered it.
C35_RpcCarriesOwnTransportId ==
  [][\A t \in DOMAIN transports :
       /\ (transports[t].connRpc = "none" /\ transports'[t].connRpc = "pending")
            => transports'[t].connTid = t
       /\ \A p \in ProdCalls :
            (ppc[p] = "produce" /\ ppc'[p] = "prodRpc" /\ pTransport[p] = t)
              => Field(t) = t]_vars

====
